---- MODULE Spec2Model ----
(***************************************************************************)
(* Inventory-System: the product catalogue service, the document store     *)
(* adapter it is built on and the authentication gate in front of it.      *)
(*                                                                         *)
(* Strings that the code inspects (name, nameSearch, category, the name    *)
(* filter) are sequences of Unicode code points, so that toLowerCase, the  *)
(* prefix range and the store's ordering are computed, not assumed.        *)
(* Strings that the code only carries (description, usernames, operation   *)
(* names) are TLA+ strings.                                                *)
(***************************************************************************)
EXTENDS Integers, Sequences, FiniteSets, TLC

VARIABLES
  store,    \* the "products" collection: document id -> stored field map
  used,     \* ids the store has ever assigned (auto ids are never reused)
  req,      \* the request being served: operation and arguments
  resp,     \* what the caller got back: status, body, store calls issued
  hist,     \* per id: the input it was created from, and whether it was written since
  adminUsers, \* AuthService.adminUsers, loaded from the configuration
  now,      \* the clock that token issuance and verification read
  issued,   \* the token payloads this process has signed
  bearer,   \* the authorization header of the request being served
  tasks     \* the update and remove calls in progress side by side

catalogVars == <<store, used, hist>>
authVars == <<adminUsers, now, issued, bearer>>
vars == <<store, used, req, resp, hist, adminUsers, now, issued, bearer, tasks>>

-----------------------------------------------------------------------------
(* Bounds *)

\* number of document ids the store can hand out in one run
MaxDocs == 2

\* the clock runs from 0 to MaxTime
MaxTime == 2

\* number of tokens signed in one run
MaxTokens == 2

Ids == 1..MaxDocs

-----------------------------------------------------------------------------
(* Strings as code point sequences *)

\* JavaScript null: a value that is no string (code points are >= 0)
Null == <<-1>>

\* "" : the empty string
EmptyStr == <<>>

\* U+F8FF, the character appended to the lowercase filter as upper range bound
Sentinel == 63743

\* "Wireless Mouse"
WirelessMouse == <<87, 105, 114, 101, 108, 101, 115, 115, 32, 77, 111, 117, 115, 101>>
\* "Mouse Pad"
MousePad == <<77, 111, 117, 115, 101, 32, 80, 97, 100>>
\* "Wire" followed by U+1F697 (an emoji, which sorts after U+F8FF) and " Kit"
WireCarKit == <<87, 105, 114, 101, 128663, 32, 75, 105, 116>>
\* "wire", "WIRE", "mouse": name filters
FilterWire == <<119, 105, 114, 101>>
FilterWIRE == <<87, 73, 82, 69>>
FilterMouse == <<109, 111, 117, 115, 101>>
\* "Electronics", "Books": two of the ten category labels
Electronics == <<69, 108, 101, 99, 116, 114, 111, 110, 105, 99, 115>>
Books == <<66, 111, 111, 107, 115>>

\* String.prototype.toLowerCase on the characters used here: A-Z map to a-z
ToLowerCase(s) ==
  [i \in 1..Len(s) |-> IF s[i] >= 65 /\ s[i] <= 90 THEN s[i] + 32 ELSE s[i]]

\* JavaScript truthiness of an optional string: undefined is handled by the
\* caller (field absent); null and "" are falsy
Truthy(v) == v # Null /\ v # EmptyStr

\* the store's order on strings: lexicographic by code point (UTF-8 byte order)
RECURSIVE StrLE(_, _)
StrLE(a, b) ==
  IF a = <<>> THEN TRUE
  ELSE IF b = <<>> THEN FALSE
  ELSE IF a[1] # b[1] THEN a[1] < b[1]
  ELSE StrLE(Tail(a), Tail(b))

\* a starts with p
StartsWith(a, p) == Len(p) <= Len(a) /\ SubSeq(a, 1, Len(p)) = p

-----------------------------------------------------------------------------
(* Field maps *)

\* JavaScript object spread {...a, ...b}; also the store's field-level merge
Spread(a, b) ==
  [f \in DOMAIN a \cup DOMAIN b |-> IF f \in DOMAIN b THEN b[f] ELSE a[f]]

VisibleFields == {"name", "description", "price", "stock", "category"}

\* valid CreateProductDto values (name 3..100 chars, description 10..1000,
\* price 1..1000000, stock 0..10000, category one of the labels)
Products == {
  [name |-> WirelessMouse, description |-> "Ergonomic wireless mouse",
   price |-> 1500, stock |-> 5, category |-> Electronics],
  [name |-> MousePad, description |-> "Soft cloth mouse pad",
   price |-> 500, stock |-> 0, category |-> Books],
  [name |-> WireCarKit, description |-> "Toy car wiring kit",
   price |-> 1500, stock |-> 7, category |-> Electronics]
}

\* UpdateProductDto values: every field optional. A name of null passes the
\* optional-field validation; "" is what a direct service call may pass.
UpdateDtos == {
  [price |-> 500],
  [name |-> Null],
  [name |-> EmptyStr],
  [name |-> MousePad, stock |-> 0]
}

NoBody == <<>>
NoResp == [op |-> "none", status |-> "none", body |-> NoBody, calls |-> <<>>]
NoReq == [op |-> "none"]

\* no request is being served
Idle == req = NoReq

-----------------------------------------------------------------------------
(* FirestoreService: the document store adapter *)

\* getDocument: null when the id is absent, else {id, ...doc.data()}
getDocument(s, id) ==
  IF id \in DOMAIN s THEN Spread([id |-> id], s[id]) ELSE Null

\* addDocument: the store assigns id and keeps the data
addDocument(s, id, data) == s @@ (id :> data)

\* mutant of updateDocument: the patch replaces the document
updateDocument_Replace(s, id, data) ==
  IF id \in DOMAIN s
  THEN [ok |-> TRUE, store |-> [s EXCEPT ![id] = data]]
  ELSE [ok |-> FALSE, store |-> s]

\* updateDocument: the existence check, then doc(id).update(data), a field merge
updateDocument(s, id, data) ==
  IF id \in DOMAIN s
  THEN [ok |-> TRUE, store |-> [s EXCEPT ![id] = Spread(s[id], data)]]
  ELSE [ok |-> FALSE, store |-> s]

\* mutant of deleteDocument: the document is kept and flagged
deleteDocument_SoftDelete(s, id) ==
  IF id \in DOMAIN s
  THEN [ok |-> TRUE, store |-> [s EXCEPT ![id] = Spread(@, [deleted |-> TRUE])]]
  ELSE [ok |-> FALSE, store |-> s]

\* deleteDocument: the existence check, then doc(id).delete()
deleteDocument(s, id) ==
  IF id \in DOMAIN s
  THEN [ok |-> TRUE, store |-> [i \in DOMAIN s \ {id} |-> s[i]]]
  ELSE [ok |-> FALSE, store |-> s]

-----------------------------------------------------------------------------
(* ProductService *)

\* mutant of createData: the lowercase form is stored as the name itself
createData_LowercasedName(dto) ==
  Spread(dto, [name |-> ToLowerCase(dto.name), nameSearch |-> ToLowerCase(dto.name)])

\* create: the data written to the store
createData(dto) == Spread(dto, [nameSearch |-> ToLowerCase(dto.name)])

\* create: the value returned to the caller
createView(id, dto) == Spread([id |-> id], dto)

\* update: the data written to the store
updateData(dto) ==
  IF "name" \in DOMAIN dto /\ Truthy(dto.name)
  THEN Spread(dto, [nameSearch |-> ToLowerCase(dto.name)])
  ELSE dto

\* mutant of updateView: the view is what a read after the write returns
updateView_Refetched(id, product, dto) ==
  Spread(Spread([id |-> id], product), updateData(dto))

\* mutant of updateView: the identifier is left out of the merged view
updateView_NoId(id, product, dto) ==
  LET merged == Spread(product, dto)
  IN [f \in DOMAIN merged \ {"id"} |-> merged[f]]

\* update: the merged view returned to the caller
updateView(id, product, dto) == Spread(Spread([id |-> id], product), dto)

Create(dto) ==
  \E id \in Ids \ used :
    /\ store' = addDocument(store, id, createData(dto))
    /\ used' = used \cup {id}
    /\ req' = [op |-> "create", dto |-> dto]
    /\ resp' = [op |-> "create", status |-> "ok", body |-> createView(id, dto),
                calls |-> <<"add">>]
    /\ hist' = hist @@ (id :> [input |-> dto, written |-> FALSE])

FindOne(id) ==
  LET product == getDocument(store, id) IN
  /\ req' = [op |-> "findOne", id |-> id]
  /\ resp' = IF product = Null
             THEN [op |-> "findOne", status |-> "NotFound", body |-> NoBody,
                   calls |-> <<"get">>]
             ELSE [op |-> "findOne", status |-> "ok", body |-> product,
                   calls |-> <<"get">>]
  /\ UNCHANGED <<store, used, hist>>

Update(id, dto) ==
  LET product == getDocument(store, id)
      w == updateDocument(store, id, updateData(dto))
  IN
  /\ req' = [op |-> "update", id |-> id, dto |-> dto]
  /\ IF product = Null
     THEN /\ resp' = [op |-> "update", status |-> "NotFound", body |-> NoBody,
                      calls |-> <<"get">>]
          /\ UNCHANGED <<store, hist>>
     ELSE /\ store' = w.store
          /\ resp' = [op |-> "update", status |-> "ok",
                      body |-> updateView(id, product, dto),
                      calls |-> <<"get", "get", "update">>]
          /\ hist' = [hist EXCEPT ![id].written = TRUE]
  /\ UNCHANGED used

\* mutant of Remove: the document is deleted without looking it up
Remove_Unchecked(id) ==
  /\ req' = [op |-> "remove", id |-> id]
  /\ store' = [i \in DOMAIN store \ {id} |-> store[i]]
  /\ resp' = [op |-> "remove", status |-> "ok",
              body |-> [id |-> id, deleted |-> TRUE], calls |-> <<"delete">>]
  /\ hist' = hist
  /\ UNCHANGED used

Remove(id) ==
  LET product == getDocument(store, id)
      w == deleteDocument(store, id)
  IN
  /\ req' = [op |-> "remove", id |-> id]
  /\ IF product = Null
     THEN /\ resp' = [op |-> "remove", status |-> "NotFound", body |-> NoBody,
                      calls |-> <<"get">>]
          /\ UNCHANGED <<store, hist>>
     ELSE /\ store' = w.store
          /\ resp' = [op |-> "remove", status |-> "ok",
                      body |-> [id |-> id, deleted |-> TRUE],
                      calls |-> <<"get", "get", "delete">>]
          /\ hist' = [hist EXCEPT ![id].written = TRUE]
  /\ UNCHANGED used

-----------------------------------------------------------------------------
(* The store's query engine, as FirestoreService drives it: a query is the  *)
(* where clauses in the order they were added, an optional order, an        *)
(* optional limit and an offset.                                            *)

\* db.collection(collection)
BaseQuery == [wheres |-> <<>>, order |-> <<>>, offset |-> 0]

\* query.where(field, op, value)
QWhere(q, field, op, value) ==
  [q EXCEPT !.wheres = Append(@, <<field, op, value>>)]

\* query.orderBy(field, direction)
QOrderBy(q, field, dir) == [q EXCEPT !.order = <<field, dir>>]

\* query.limit(n)
QLimit(q, n) == Spread(q, [limit |-> n])

\* query.offset(n)
QOffset(q, n) == [q EXCEPT !.offset = n]

NumericFields == {"price", "stock"}

\* the store's order on the values of one field: numbers by value, strings
\* by code point, null before every string
FieldLE(field, a, b) ==
  IF field \in NumericFields THEN a <= b
  ELSE IF a = Null THEN TRUE
  ELSE IF b = Null THEN FALSE
  ELSE StrLE(a, b)

\* one where clause on one document; a null field value satisfies no clause
Holds(d, w) ==
  LET field == w[1]  op == w[2]  value == w[3] IN
  /\ field \in DOMAIN d
  /\ (field \in NumericFields \/ d[field] # Null)
  /\ CASE op = "==" -> d[field] = value
       [] op = ">=" -> FieldLE(field, value, d[field])
       [] op = "<=" -> FieldLE(field, d[field], value)

\* document a comes before document b: by the order field, ties by document
\* id in the same direction; by document id alone when no order is given
Before(s, order, a, b) ==
  IF order = <<>> THEN a < b
  ELSE LET field == order[1]  dir == order[2] IN
       IF s[a][field] = s[b][field]
       THEN (IF dir = "asc" THEN a < b ELSE a > b)
       ELSE (IF dir = "asc" THEN FieldLE(field, s[a][field], s[b][field])
                            ELSE FieldLE(field, s[b][field], s[a][field]))

RECURSIVE SortIds(_, _, _)
SortIds(s, order, S) ==
  IF S = {} THEN <<>>
  ELSE LET first == CHOOSE x \in S : \A y \in S \ {x} : Before(s, order, x, y)
       IN <<first>> \o SortIds(s, order, S \ {first})

Min(a, b) == IF a <= b THEN a ELSE b

\* query.get(): the ids of the snapshot's documents, in order
QGet(s, q) ==
  LET matched == {id \in DOMAIN s :
                    \A i \in 1..Len(q.wheres) : Holds(s[id], q.wheres[i])}
      \* an order clause leaves out the documents that lack the field
      ordered == IF q.order = <<>> THEN matched
                 ELSE {id \in matched : q.order[1] \in DOMAIN s[id]}
      sorted == SortIds(s, q.order, ordered)
      last == IF "limit" \in DOMAIN q
              THEN Min(Len(sorted), q.offset + q.limit)
              ELSE Len(sorted)
  IN SubSeq(sorted, q.offset + 1, last)

\* snapshot.docs.map(doc => ({ id: doc.id, ...doc.data() }))
DocsOf(s, ids) == [i \in 1..Len(ids) |-> Spread([id |-> ids[i]], s[ids[i]])]

-----------------------------------------------------------------------------
(* FirestoreService.getCollectionWithOptions *)

\* a destructuring default: the given value, or d when the key is absent
OrDefault(r, key, d) == IF key \in DOMAIN r THEN r[key] ELSE d

DefaultPage == 1
DefaultLimit == 10
MaxLimit == 100

\* mutant of invalidPagination: the upper limit is not checked
invalidPagination_NoUpperLimit(page, limit) == page < 1 \/ limit < 1

\* the pagination check
invalidPagination(page, limit) == page < 1 \/ limit < 1 \/ limit > MaxLimit

\* the where clauses the filters add, in the filters' insertion order
applyFilters(q, filters) ==
  LET q1 == IF "name" \in DOMAIN filters
            THEN LET lowerCaseValue == ToLowerCase(filters.name) IN
                 QWhere(QWhere(q, "nameSearch", ">=", lowerCaseValue),
                        "nameSearch", "<=", Append(lowerCaseValue, Sentinel))
            ELSE q
      q2 == IF "category" \in DOMAIN filters
            THEN QWhere(q1, "category", "==", filters.category)
            ELSE q1
      q3 == IF "minPrice" \in DOMAIN filters
            THEN QWhere(q2, "price", ">=", filters.minPrice)
            ELSE q2
  IN IF "maxPrice" \in DOMAIN filters
     THEN QWhere(q3, "price", "<=", filters.maxPrice)
     ELSE q3

\* mutant of orderDirection: the comparison is inverted
orderDirection_Inverted(sortOrder) == IF sortOrder = "desc" THEN "asc" ELSE "desc"

\* the direction handed to orderBy
orderDirection(sortOrder) == IF sortOrder = "desc" THEN "desc" ELSE "asc"

\* mutant of pageOffset: pages counted from zero
pageOffset_FromZero(page, limit) == page * limit

\* mutant of pageOffset: consecutive pages overlap by one item
pageOffset_Overlapping(page, limit) == (page - 1) * (limit - 1)

\* the offset of a page
pageOffset(page, limit) == (page - 1) * limit

\* mutant of countTotal: the whole collection is counted, not the filtered set
countTotal_WholeCollection(s, filtered) == Len(QGet(s, BaseQuery))

\* the total reported: the size of the snapshot of the filtered query
countTotal(s, filtered) == Len(QGet(s, filtered))

\* the page query: order, limit, and the offset when it is positive
pageQuery(filtered, sortBy, sortOrder, page, limit) ==
  LET sorted == QOrderBy(filtered, sortBy, orderDirection(sortOrder))
      limited == QLimit(sorted, limit)
      offset == pageOffset(page, limit)
  IN IF offset > 0 THEN QOffset(limited, offset) ELSE limited

getCollectionWithOptions(s, options) ==
  LET page == OrDefault(options, "page", DefaultPage)
      limit == OrDefault(options, "limit", DefaultLimit)
      filters == OrDefault(options, "filters", <<>>)
      sortBy == OrDefault(options, "sortBy", "name")
      sortOrder == OrDefault(options, "sortOrder", "asc")
      filtered == applyFilters(BaseQuery, filters)
  IN IF invalidPagination(page, limit)
     THEN [status |-> "BadRequest", calls |-> <<>>]
     ELSE [status |-> "ok",
           items |-> DocsOf(s, QGet(s, pageQuery(filtered, sortBy, sortOrder,
                                                 page, limit))),
           total |-> countTotal(s, filtered),
           calls |-> <<"query", "query">>]

-----------------------------------------------------------------------------
(* ProductService.findAll *)

\* the filters object: a filter is kept when it is truthy (name, category)
\* or not undefined (minPrice, maxPrice)
buildFilters(query) ==
  LET keep(key, cond) == IF key \in DOMAIN query /\ cond
                         THEN [k \in {key} |-> query[key]] ELSE <<>>
  IN Spread(Spread(Spread(
       keep("name", Truthy(OrDefault(query, "name", Null))),
       keep("category", Truthy(OrDefault(query, "category", Null)))),
       keep("minPrice", TRUE)),
       keep("maxPrice", TRUE))

\* mutant of ceilDiv: the quotient is rounded down
ceilDiv_RoundedDown(total, limit) == total \div limit

\* mutant of ceilDiv: one more than the quotient
ceilDiv_PlusOne(total, limit) == (total \div limit) + 1

\* Math.ceil(total / limit) for total >= 0 and limit >= 1
ceilDiv(total, limit) ==
  IF total % limit = 0 THEN total \div limit ELSE (total \div limit) + 1

\* the options handed to the adapter: sortBy and sortOrder only when given
queryOptions(query) ==
  LET page == OrDefault(query, "page", DefaultPage)
      limit == OrDefault(query, "limit", DefaultLimit)
      sort == [k \in DOMAIN query \cap {"sortBy", "sortOrder"} |-> query[k]]
  IN Spread([page |-> page, limit |-> limit, filters |-> buildFilters(query)],
            sort)

findAll(s, query) ==
  LET page == OrDefault(query, "page", DefaultPage)
      limit == OrDefault(query, "limit", DefaultLimit)
      r == getCollectionWithOptions(s, queryOptions(query))
      totalPages == ceilDiv(r.total, limit)
  IN IF r.status # "ok"
     THEN [op |-> "findAll", status |-> r.status, body |-> NoBody,
           calls |-> r.calls]
     ELSE [op |-> "findAll", status |-> "ok",
           body |-> [items |-> r.items, total |-> r.total, page |-> page,
                     limit |-> limit, totalPages |-> totalPages,
                     hasNextPage |-> page < totalPages,
                     hasPreviousPage |-> page > 1],
           calls |-> r.calls]

FindAll(query) ==
  /\ req' = [op |-> "findAll", query |-> query]
  /\ resp' = findAll(store, query)
  /\ UNCHANGED <<store, used, hist>>

\* QueryProductDto values: every parameter optional
PageOpts == {<<>>, [page |-> 0], [page |-> 1], [page |-> 2], [page |-> 3]}
LimitOpts == {<<>>, [limit |-> 0], [limit |-> 1], [limit |-> 2],
              [limit |-> 100], [limit |-> 101]}
NameOpts == {<<>>, [name |-> FilterWire], [name |-> FilterWIRE],
             [name |-> FilterMouse]}
CategoryOpts == {<<>>, [category |-> Electronics]}
PriceOpts == {<<>>, [minPrice |-> 0], [minPrice |-> 1500], [maxPrice |-> 500],
              [minPrice |-> 1500, maxPrice |-> 1500]}
SortOpts == {<<>>, [sortOrder |-> "desc"],
             [sortBy |-> "price", sortOrder |-> "asc"],
             [sortBy |-> "price", sortOrder |-> "desc"],
             [sortBy |-> "stock"],
             [sortBy |-> "category", sortOrder |-> "desc"]}

Queries ==
  {Spread(Spread(Spread(Spread(Spread(p, l), n), c), pr), so) :
     p \in PageOpts, l \in LimitOpts, n \in NameOpts, c \in CategoryOpts,
     pr \in PriceOpts, so \in SortOpts}

-----------------------------------------------------------------------------
(* Authentication: AuthService, the token signer and the guards *)

\* JWT_EXPIRATION, in clock ticks
TokenLifetime == 2

\* the admin list the constructor builds: a missing password becomes ""
loadAdminUsers(password1, password2) ==
  << [username |-> "admin1", password |-> password1, isAdmin |-> TRUE],
     [username |-> "admin2", password |-> password2, isAdmin |-> TRUE] >>

\* mutant of validateUser: the password is not compared
validateUser_UsernameOnly(users, username, password) ==
  LET hits == {i \in 1..Len(users) : users[i].username = username}
  IN IF hits = {} THEN [found |-> FALSE]
     ELSE [found |-> TRUE, user |-> users[CHOOSE i \in hits : \A j \in hits : i <= j]]

\* validateUser: the first admin whose username and password both match
validateUser(users, username, password) ==
  LET hits == {i \in 1..Len(users) :
                 users[i].username = username /\ users[i].password = password}
  IN IF hits = {} THEN [found |-> FALSE]
     ELSE [found |-> TRUE, user |-> users[CHOOSE i \in hits : \A j \in hits : i <= j]]

\* mutant of invalidCredentials: the message tells the cause
invalidCredentials_ByCause(users, username) ==
  [status |-> "Unauthorized",
   body |-> IF \E i \in 1..Len(users) : users[i].username = username
            THEN "Wrong password" ELSE "Unknown user"]

\* validateUser: the exception thrown when no admin matches
invalidCredentials(users, username) ==
  [status |-> "Unauthorized", body |-> "Invalid credentials"]

\* jwtService.sign(payload): the payload with issuance and expiry times
sign(payload, t) ==
  [username |-> payload.username, isAdmin |-> payload.isAdmin,
   iat |-> t, exp |-> t + TokenLifetime]

NoPayload == [username |-> "", isAdmin |-> FALSE, iat |-> 0, exp |-> 0]
NoBearer == [kind |-> "none", payload |-> NoPayload, signedBy |-> "nobody"]
MalformedBearer == [kind |-> "malformed", payload |-> NoPayload, signedBy |-> "nobody"]
Jwt(payload, key) == [kind |-> "jwt", payload |-> payload, signedBy |-> key]

\* token verification: a well-formed token, signed with the process secret,
\* whose expiry lies ahead
verifyToken(b, t) ==
  /\ b.kind = "jwt"
  /\ b.signedBy = "JWT_SECRET"
  /\ t < b.payload.exp

\* JwtAuthGuard.canActivate: the bearer token must verify
jwtAuthGuard(b, t) == verifyToken(b, t)

\* the routes decorated @Public()
isPublic(route) == route = "login"

\* mutant of canActivate: the public check is inverted
canActivate_InvertedPublic(route, b, t) ==
  IF ~isPublic(route) THEN TRUE ELSE jwtAuthGuard(b, t)

\* mutant of canActivate: every request is let through
canActivate_AlwaysTrue(route, b, t) == TRUE

\* GlobalAuthGuard.canActivate
canActivate(route, b, t) ==
  IF isPublic(route) THEN TRUE ELSE jwtAuthGuard(b, t)

\* the guard's rejection: the handler is not entered
Reject(route, b) ==
  /\ req' = [op |-> route]
  /\ resp' = [op |-> route, status |-> "Unauthorized", body |-> "Unauthorized",
              calls |-> <<>>]
  /\ UNCHANGED <<store, used, hist, issued>>

\* a request through the global guard to a handler
Guarded(route, b, handler) ==
  /\ bearer' = b
  /\ IF canActivate(route, b, now) THEN handler ELSE Reject(route, b)

\* AuthController.login / AuthService.login
Login(username, password) ==
  LET v == validateUser(adminUsers, username, password)
      token == sign([username |-> v.user.username, isAdmin |-> v.user.isAdmin], now)
  IN
  /\ req' = [op |-> "login", username |-> username, password |-> password]
  /\ IF v.found
     THEN /\ Cardinality(issued \cup {token}) <= MaxTokens
          /\ issued' = issued \cup {token}
          /\ resp' = [op |-> "login", status |-> "ok",
                      body |-> [access_token |-> Jwt(token, "JWT_SECRET"),
                                username |-> v.user.username],
                      calls |-> <<>>]
     ELSE /\ issued' = issued
          /\ resp' = Spread([op |-> "login", calls |-> <<>>],
                             invalidCredentials(adminUsers, username))
  /\ UNCHANGED <<store, used, hist>>

\* the least password length LoginDto accepts
MinPasswordLength == 6

\* mutant of validLoginDto: the password is not validated
validLoginDto_NoPasswordRule(username, password) == username # ""

\* LoginDto under the global ValidationPipe: username not empty, password
\* not empty and at least MinPasswordLength long
validLoginDto(username, password) ==
  /\ username # ""
  /\ password # ""
  /\ Len(password) >= MinPasswordLength

\* POST /auth/login: the body is validated, then the controller calls the
\* service
LoginRoute(username, password) ==
  IF validLoginDto(username, password)
  THEN Login(username, password)
  ELSE /\ req' = [op |-> "login", username |-> username, password |-> password]
       /\ resp' = [op |-> "login", status |-> "BadRequest", body |-> NoBody,
                   calls |-> <<>>]
       /\ UNCHANGED <<store, used, hist, issued>>

\* time passes
Tick ==
  /\ now < MaxTime
  /\ now' = now + 1
  /\ UNCHANGED <<store, used, req, resp, hist, adminUsers, issued, bearer, tasks>>

Usernames == {"admin1", "admin2", "mallory"}
Passwords == {"", "password-1", "password-2"}

\* a payload nobody signed with the process secret
FabricatedPayload == [username |-> "admin1", isAdmin |-> TRUE, iat |-> 0, exp |-> MaxTime + 1]

\* what a caller can put in the authorization header
Bearers ==
  {NoBearer, MalformedBearer, Jwt(FabricatedPayload, "other key")}
    \cup {Jwt(p, "JWT_SECRET") : p \in issued}
    \cup {Jwt(p, "other key") : p \in issued}

\* the response reaches the caller and the request ends
Reply ==
  /\ ~Idle
  /\ req' = NoReq
  /\ resp' = NoResp
  /\ bearer' = NoBearer
  /\ UNCHANGED <<store, used, hist, adminUsers, now, issued, tasks>>

-----------------------------------------------------------------------------
(* Calls in progress side by side: update and remove suspend at each of     *)
(* their store calls, and another call may run in between. Each task is one *)
(* call.                                                                    *)

TaskNames == {"t1", "t2"}
NoTask == [pc |-> "idle"]
NoTasks == [t \in TaskNames |-> NoTask]

\* the patches of the calls that run side by side
RaceDtos == {[price |-> 500], [price |-> 700, stock |-> 9],
             [name |-> MousePad, stock |-> 0]}

\* docSnapshot.exists
exists(s, id) == id \in DOMAIN s

\* mutant of docUpdate: an absent document is created from the patch
docUpdate_Upsert(s, id, data) ==
  IF id \in DOMAIN s
  THEN [ok |-> TRUE, store |-> [s EXCEPT ![id] = Spread(s[id], data)]]
  ELSE [ok |-> TRUE, store |-> s @@ (id :> data)]

\* doc(id).update(data): a field merge; fails when the document is absent
docUpdate(s, id, data) ==
  IF id \in DOMAIN s
  THEN [ok |-> TRUE, store |-> [s EXCEPT ![id] = Spread(s[id], data)]]
  ELSE [ok |-> FALSE, store |-> s]

\* doc(id).delete(): succeeds whether or not the document is there
docDelete(s, id) == [i \in DOMAIN s \ {id} |-> s[i]]

\* mutant of dataToUpdate: the product read earlier is written back whole
dataToUpdate_WholeProduct(product, dto) ==
  LET merged == Spread(product, updateData(dto))
  IN [f \in DOMAIN merged \ {"id"} |-> merged[f]]

\* update: the data handed to updateDocument
dataToUpdate(product, dto) == updateData(dto)

\* a finished call and its outcome
Done(task, status, body) ==
  Spread(task, [pc |-> "done", status |-> status, body |-> body])

\* update(id, dto) is called
StartUpdate(t, id, dto) ==
  /\ tasks[t].pc = "idle"
  /\ tasks' = [tasks EXCEPT ![t] =
                 [pc |-> "getDocument", op |-> "update", id |-> id, dto |-> dto,
                  live |-> id \in DOMAIN store]]
  /\ UNCHANGED <<store, used, hist>>

\* remove(id) is called
StartRemove(t, id) ==
  /\ tasks[t].pc = "idle"
  /\ tasks' = [tasks EXCEPT ![t] =
                 [pc |-> "getDocument", op |-> "remove", id |-> id,
                  live |-> id \in DOMAIN store]]
  /\ UNCHANGED <<store, used, hist>>

\* ProductService: getDocument and the NotFound check
ServiceGet(t) ==
  LET task == tasks[t]
      product == getDocument(store, task.id)
  IN /\ task.pc = "getDocument"
     /\ tasks' = [tasks EXCEPT ![t] =
                    IF product = Null THEN Done(task, "NotFound", NoBody)
                    ELSE Spread(task, [pc |-> "exists", product |-> product])]
     /\ UNCHANGED <<store, used, hist>>

\* FirestoreService.updateDocument / deleteDocument: the existence check
AdapterExists(t) ==
  LET task == tasks[t] IN
  /\ task.pc = "exists"
  /\ tasks' = [tasks EXCEPT ![t] =
                 IF exists(store, task.id) THEN Spread(task, [pc |-> "write"])
                 ELSE Done(task, "NotFound", NoBody)]
  /\ UNCHANGED <<store, used, hist>>

\* FirestoreService.updateDocument: doc(id).update(data), then update returns
\* the merged view; a store failure surfaces as a database error
AdapterUpdate(t) ==
  LET task == tasks[t]
      w == docUpdate(store, task.id, dataToUpdate(task.product, task.dto))
  IN /\ task.pc = "write" /\ task.op = "update"
     /\ store' = w.store
     /\ tasks' = [tasks EXCEPT ![t] =
                    IF w.ok
                    THEN Done(task, "ok", updateView(task.id, task.product, task.dto))
                    ELSE Done(task, "InternalServerError", NoBody)]
     /\ hist' = IF w.ok THEN [hist EXCEPT ![task.id].written = TRUE] ELSE hist
     /\ UNCHANGED used

\* FirestoreService.deleteDocument: doc(id).delete(), then remove returns
AdapterDelete(t) ==
  LET task == tasks[t] IN
  /\ task.pc = "write" /\ task.op = "remove"
  /\ store' = docDelete(store, task.id)
  /\ tasks' = [tasks EXCEPT ![t] =
                 Done(task, "ok", [id |-> task.id, deleted |-> TRUE])]
  /\ hist' = [hist EXCEPT ![task.id].written = TRUE]
  /\ UNCHANGED used

-----------------------------------------------------------------------------
(* Store failures: a request in which one store call fails. failAt is the   *)
(* position of that call among the store calls of the request.              *)

\* mutant of storeFailure: a failed store call is reported as NotFound
storeFailure_AsNotFound(op, calls) ==
  [op |-> op, status |-> "NotFound", body |-> NoBody, calls |-> calls]

\* the adapter's catch blocks: a failed store call becomes an
\* InternalServerErrorException, which the service rethrows
storeFailure(op, calls) ==
  [op |-> op, status |-> "InternalServerError", body |-> NoBody, calls |-> calls]

\* create whose collection.add fails
FaultyCreate(dto) ==
  /\ req' = [op |-> "create", dto |-> dto, failAt |-> 1]
  /\ resp' = storeFailure("create", <<"add">>)
  /\ UNCHANGED <<store, used, hist>>

\* mutant of FaultyFindOne: the failed read is tried again
FaultyFindOne_Retried(id) ==
  LET product == getDocument(store, id) IN
  /\ req' = [op |-> "findOne", id |-> id, failAt |-> 1]
  /\ resp' = IF product = Null
             THEN [op |-> "findOne", status |-> "NotFound", body |-> NoBody,
                   calls |-> <<"get", "get">>]
             ELSE [op |-> "findOne", status |-> "ok", body |-> product,
                   calls |-> <<"get", "get">>]
  /\ UNCHANGED <<store, used, hist>>

\* findOne whose read fails
FaultyFindOne(id) ==
  /\ req' = [op |-> "findOne", id |-> id, failAt |-> 1]
  /\ resp' = storeFailure("findOne", <<"get">>)
  /\ UNCHANGED <<store, used, hist>>

\* findAll whose count read (k = 1) or page read (k = 2) fails; the
\* pagination check comes first
FaultyFindAll(query, k) ==
  LET r == findAll(store, query) IN
  /\ req' = [op |-> "findAll", query |-> query, failAt |-> k]
  /\ resp' = IF r.status # "ok" THEN r
             ELSE storeFailure("findAll", SubSeq(<<"query", "query">>, 1, k))
  /\ UNCHANGED <<store, used, hist>>

\* update whose k-th store call fails: getDocument's read, updateDocument's
\* existence read, or doc.update
FaultyUpdate(id, dto, k) ==
  LET product == getDocument(store, id) IN
  /\ req' = [op |-> "update", id |-> id, dto |-> dto, failAt |-> k]
  /\ resp' = IF k = 1 THEN storeFailure("update", <<"get">>)
             ELSE IF product = Null
             THEN [op |-> "update", status |-> "NotFound", body |-> NoBody,
                   calls |-> <<"get">>]
             ELSE storeFailure("update", SubSeq(<<"get", "get", "update">>, 1, k))
  /\ UNCHANGED <<store, used, hist>>

\* remove whose k-th store call fails: getDocument's read, deleteDocument's
\* existence read, or doc.delete
FaultyRemove(id, k) ==
  LET product == getDocument(store, id) IN
  /\ req' = [op |-> "remove", id |-> id, failAt |-> k]
  /\ resp' = IF k = 1 THEN storeFailure("remove", <<"get">>)
             ELSE IF product = Null
             THEN [op |-> "remove", status |-> "NotFound", body |-> NoBody,
                   calls |-> <<"get">>]
             ELSE storeFailure("remove", SubSeq(<<"get", "get", "delete">>, 1, k))
  /\ UNCHANGED <<store, used, hist>>

\* the list queries asked while store calls may fail
FaultQueries == {<<>>, [limit |-> 1], [page |-> 0], [limit |-> 101]}

\* the list queries that run beside writes
RaceQueries == {<<>>, [limit |-> 1], [page |-> 2, limit |-> 1], [page |-> 0]}

\* the filtered query that both reads of a list call start from
filteredQuery(query) == applyFilters(BaseQuery, buildFilters(query))

\* findAll(query) is called: the pagination check comes before any store call
StartFindAll(t, query) ==
  LET page == OrDefault(query, "page", DefaultPage)
      limit == OrDefault(query, "limit", DefaultLimit)
      task == [pc |-> "count", op |-> "findAll", query |-> query]
  IN /\ tasks[t].pc = "idle"
     /\ tasks' = [tasks EXCEPT ![t] =
                    IF invalidPagination(page, limit)
                    THEN Done(task, "BadRequest", NoBody)
                    ELSE task]
     /\ UNCHANGED <<store, used, hist>>

\* getCollectionWithOptions: the first read, whose size is the total
CountRead(t) ==
  LET task == tasks[t] IN
  /\ task.pc = "count"
  /\ tasks' = [tasks EXCEPT ![t] =
                 Spread(task, [pc |-> "page",
                               total |-> countTotal(store, filteredQuery(task.query))])]
  /\ UNCHANGED <<store, used, hist>>

\* getCollectionWithOptions: the second read, of the page; findAll returns
PageRead(t) ==
  LET task == tasks[t]
      query == task.query
      page == OrDefault(query, "page", DefaultPage)
      limit == OrDefault(query, "limit", DefaultLimit)
      sortBy == OrDefault(query, "sortBy", "name")
      sortOrder == OrDefault(query, "sortOrder", "asc")
      items == DocsOf(store, QGet(store, pageQuery(filteredQuery(query), sortBy,
                                                   sortOrder, page, limit)))
      totalPages == ceilDiv(task.total, limit)
  IN /\ task.pc = "page"
     /\ tasks' = [tasks EXCEPT ![t] =
                    Done(task, "ok",
                         [items |-> items, total |-> task.total, page |-> page,
                          limit |-> limit, totalPages |-> totalPages,
                          hasNextPage |-> page < totalPages,
                          hasPreviousPage |-> page > 1])]
     /\ UNCHANGED <<store, used, hist>>

-----------------------------------------------------------------------------
(* The catalogue served by one caller at a time *)

Init ==
  /\ store = <<>>
  /\ used = {}
  /\ req = NoReq
  /\ resp = NoResp
  /\ hist = <<>>
  /\ adminUsers = loadAdminUsers("password-1", "password-2")
  /\ now = 0
  /\ issued = {}
  /\ bearer = NoBearer
  /\ tasks = NoTasks

\* the list queries asked between the other operations
ListQueries == {<<>>, [limit |-> 1], [name |-> FilterWire, sortOrder |-> "desc"]}

\* a request starts when the previous one was answered
Next ==
  \/ Idle /\ (\E dto \in Products : Create(dto)) /\ UNCHANGED <<authVars, tasks>>
  \/ Idle /\ (\E id \in Ids : FindOne(id)) /\ UNCHANGED <<authVars, tasks>>
  \/ Idle /\ (\E id \in Ids, dto \in UpdateDtos : Update(id, dto)) /\ UNCHANGED <<authVars, tasks>>
  \/ Idle /\ (\E id \in Ids : Remove(id)) /\ UNCHANGED <<authVars, tasks>>
  \/ Idle /\ (\E query \in ListQueries : FindAll(query)) /\ UNCHANGED <<authVars, tasks>>
  \/ Reply

Spec == Init /\ [][Next]_vars

\* The catalogue filled by creates and listed with every query parameter
NextQuery ==
  \/ Idle /\ (\E dto \in Products : Create(dto)) /\ UNCHANGED <<authVars, tasks>>
  \/ Idle /\ (\E query \in Queries : FindAll(query)) /\ UNCHANGED <<authVars, tasks>>
  \/ Reply

SpecQuery == Init /\ [][NextQuery]_vars

\* The catalogue behind the authentication gate: every request carries an
\* authorization header and passes the global guard first
AuthProduct == [name |-> WirelessMouse, description |-> "Ergonomic wireless mouse",
                price |-> 1500, stock |-> 5, category |-> Electronics]

InitAuth ==
  /\ store = <<>>
  /\ used = {}
  /\ req = NoReq
  /\ resp = NoResp
  /\ hist = <<>>
  /\ \E p2 \in {"", "password-2"} : adminUsers = loadAdminUsers("password-1", p2)
  /\ now = 0
  /\ issued = {}
  /\ bearer = NoBearer
  /\ tasks = NoTasks

NextAuth ==
  \/ Idle /\ Tick
  \/ Idle /\ \E b \in Bearers, u \in Usernames, p \in Passwords :
                Guarded("login", b, LoginRoute(u, p)) /\ UNCHANGED <<adminUsers, now, tasks>>
  \/ Idle /\ \E b \in Bearers :
                Guarded("create", b, Create(AuthProduct)) /\ UNCHANGED <<adminUsers, now, issued, tasks>>
  \/ Idle /\ \E b \in Bearers :
                Guarded("findAll", b, FindAll([limit |-> 1])) /\ UNCHANGED <<adminUsers, now, issued, tasks>>
  \/ Idle /\ \E b \in Bearers, id \in Ids :
                Guarded("findOne", b, FindOne(id)) /\ UNCHANGED <<adminUsers, now, issued, tasks>>
  \/ Idle /\ \E b \in Bearers, id \in Ids :
                Guarded("update", b, Update(id, [price |-> 500])) /\ UNCHANGED <<adminUsers, now, issued, tasks>>
  \/ Idle /\ \E b \in Bearers, id \in Ids :
                Guarded("remove", b, Remove(id)) /\ UNCHANGED <<adminUsers, now, issued, tasks>>
  \/ Reply

SpecAuth == InitAuth /\ [][NextAuth]_vars

\* The catalogue with update and remove calls interleaved at their store calls
RaceProduct == [name |-> WirelessMouse, description |-> "Ergonomic wireless mouse",
                price |-> 1500, stock |-> 5, category |-> Electronics]

NextRace ==
  \/ Idle /\ Create(RaceProduct) /\ UNCHANGED <<authVars, tasks>>
  \/ Idle /\ (\E t \in TaskNames, id \in Ids, dto \in RaceDtos : StartUpdate(t, id, dto))
          /\ UNCHANGED <<req, resp, authVars>>
  \/ Idle /\ (\E t \in TaskNames, id \in Ids : StartRemove(t, id))
          /\ UNCHANGED <<req, resp, authVars>>
  \/ Idle /\ (\E t \in TaskNames : ServiceGet(t)) /\ UNCHANGED <<req, resp, authVars>>
  \/ Idle /\ (\E t \in TaskNames : AdapterExists(t)) /\ UNCHANGED <<req, resp, authVars>>
  \/ Idle /\ (\E t \in TaskNames : AdapterUpdate(t)) /\ UNCHANGED <<req, resp, authVars>>
  \/ Idle /\ (\E t \in TaskNames : AdapterDelete(t)) /\ UNCHANGED <<req, resp, authVars>>
  \/ Reply

SpecRace == Init /\ [][NextRace]_vars

\* The catalogue over a store whose calls may fail
NextFault ==
  \/ Idle /\ (\E dto \in Products : Create(dto)) /\ UNCHANGED <<authVars, tasks>>
  \/ Idle /\ (\E id \in Ids : FindOne(id)) /\ UNCHANGED <<authVars, tasks>>
  \/ Idle /\ (\E id \in Ids, dto \in UpdateDtos : Update(id, dto)) /\ UNCHANGED <<authVars, tasks>>
  \/ Idle /\ (\E id \in Ids : Remove(id)) /\ UNCHANGED <<authVars, tasks>>
  \/ Idle /\ (\E query \in FaultQueries : FindAll(query)) /\ UNCHANGED <<authVars, tasks>>
  \/ Idle /\ (\E dto \in Products : FaultyCreate(dto)) /\ UNCHANGED <<authVars, tasks>>
  \/ Idle /\ (\E id \in Ids : FaultyFindOne(id)) /\ UNCHANGED <<authVars, tasks>>
  \/ Idle /\ (\E query \in FaultQueries, k \in 1..2 : FaultyFindAll(query, k))
          /\ UNCHANGED <<authVars, tasks>>
  \/ Idle /\ (\E id \in Ids, dto \in UpdateDtos, k \in 1..3 : FaultyUpdate(id, dto, k))
          /\ UNCHANGED <<authVars, tasks>>
  \/ Idle /\ (\E id \in Ids, k \in 1..3 : FaultyRemove(id, k)) /\ UNCHANGED <<authVars, tasks>>
  \/ Reply

SpecFault == Init /\ [][NextFault]_vars

\* The catalogue listed while products are created and removed: a write may
\* fall between the two reads of a list call
NextListRace ==
  \/ Idle /\ Create(RaceProduct) /\ UNCHANGED <<authVars, tasks>>
  \/ Idle /\ (\E id \in Ids : Remove(id)) /\ UNCHANGED <<authVars, tasks>>
  \/ Idle /\ (\E t \in TaskNames, query \in RaceQueries : StartFindAll(t, query))
          /\ UNCHANGED <<req, resp, authVars>>
  \/ Idle /\ (\E t \in TaskNames : CountRead(t)) /\ UNCHANGED <<req, resp, authVars>>
  \/ Idle /\ (\E t \in TaskNames : PageRead(t)) /\ UNCHANGED <<req, resp, authVars>>
  \/ Reply

SpecListRace == Init /\ [][NextListRace]_vars

-----------------------------------------------------------------------------
(* Properties *)

IsFindAll == req.op = "findAll"
FindAllOk == IsFindAll /\ resp.status = "ok"

\* the page and page size a list query asks for
AskedPage == IF "page" \in DOMAIN req.query THEN req.query.page ELSE 1
AskedLimit == IF "limit" \in DOMAIN req.query THEN req.query.limit ELSE 10

ValidPaging == AskedPage >= 1 /\ AskedLimit >= 1 /\ AskedLimit <= 100

Has(q, key) == key \in DOMAIN q

\* the ids of the items of a list response
ItemIds == {resp.body.items[i].id : i \in 1..Len(resp.body.items)}

\* C1: every stored product has nameSearch = lowercase(name)
C1_SearchFieldFresh ==
  \A id \in DOMAIN store :
    /\ store[id].name # Null
    /\ store[id].nameSearch = ToLowerCase(store[id].name)

ProductOps == {"create", "findAll", "findOne", "update", "remove"}

\* a bearer the guard must refuse at time t: missing, malformed, signed with
\* another key, or expired
BadBearer(b, t) ==
  \/ b.kind = "none"
  \/ b.kind = "malformed"
  \/ b.kind = "jwt" /\ b.signedBy # "JWT_SECRET"
  \/ b.kind = "jwt" /\ t >= b.payload.exp

\* the guard's own rejection, as opposed to a handler's failure
RejectedByGuard(r) == r.status = "Unauthorized" /\ r.body = "Unauthorized"

\* C2: a request to a product operation with no, a malformed, an expired or a
\* wrongly signed token is rejected with Unauthorized before any service logic
\* or store call; with a valid token it reaches the handler; login is allowed
\* without any token
C2_GuardBeforeHandlers ==
  [][ (Idle /\ req' # NoReq) =>
        /\ (req'.op \in ProductOps /\ BadBearer(bearer', now)) =>
              /\ RejectedByGuard(resp')
              /\ resp'.calls = <<>>
              /\ store' = store /\ used' = used /\ hist' = hist
        /\ (req'.op \in ProductOps /\ ~BadBearer(bearer', now)) =>
              /\ ~RejectedByGuard(resp')
              /\ resp'.calls # <<>>
        /\ (req'.op = "login") => ~RejectedByGuard(resp')
    ]_vars

\* an expired token of this process refused on a product operation over a
\* store that holds a product
C2_Witness ==
  /\ req.op \in ProductOps
  /\ bearer.kind = "jwt" /\ bearer.signedBy = "JWT_SECRET"
  /\ bearer.payload \in issued
  /\ now >= bearer.payload.exp
  /\ resp.status = "Unauthorized"
  /\ DOMAIN store # {}

\* the composite predicate of a list query on one stored document: the
\* search field within [lowercase(name), lowercase(name) + U+F8FF], the
\* category equal, the price within the inclusive bounds
FilterPredicate(d, q) ==
  /\ (Has(q, "name") /\ q.name # EmptyStr) =>
        /\ StrLE(ToLowerCase(q.name), d.nameSearch)
        /\ StrLE(d.nameSearch, Append(ToLowerCase(q.name), 63743))
  /\ Has(q, "category") => d.category = q.category
  /\ Has(q, "minPrice") => d.price >= q.minPrice
  /\ Has(q, "maxPrice") => d.price <= q.maxPrice

MatchingIds == {id \in DOMAIN store : FilterPredicate(store[id], req.query)}

\* C3: a list query with valid page and limit returns at most limit items and
\* a total equal to the number of stored products satisfying the filter
\* predicate, whatever the page and the limit
C3_TotalIsMatchCount ==
  (IsFindAll /\ ValidPaging) =>
    /\ resp.status = "ok"
    /\ Len(resp.body.items) <= AskedLimit
    /\ resp.body.total = Cardinality(MatchingIds)

\* a filtered list whose total is below the store's size and above the page's
C3_Witness ==
  /\ FindAllOk
  /\ Has(req.query, "name")
  /\ Cardinality(DOMAIN store) = 2
  /\ resp.body.total = 1
  /\ Len(resp.body.items) = 0

\* the matching products in the order of the chosen sort key
SortedMatching ==
  LET q == req.query
      field == IF Has(q, "sortBy") THEN q.sortBy ELSE "name"
      dir == IF Has(q, "sortOrder") THEN q.sortOrder ELSE "asc"
  IN SortIds(store, <<field, dir>>, MatchingIds)

\* C4: the items of page (page, limit) are the elements at positions
\* (page-1)*limit .. (page-1)*limit + limit - 1 of the sorted matching
\* products; a page beyond the data is an empty list, not an error, with the
\* real total
C4_PageIsSlice ==
  (IsFindAll /\ ValidPaging) =>
    LET skip == (AskedPage - 1) * AskedLimit
        all == SortedMatching
        last == IF skip + AskedLimit <= Len(all) THEN skip + AskedLimit ELSE Len(all)
    IN /\ resp.status = "ok"
       /\ resp.body.items = DocsOf(store, SubSeq(all, skip + 1, last))
       /\ skip >= Len(all) => (resp.body.items = <<>> /\ resp.body.total = Len(all))

\* the second page of one-item pages over two matching products
C4_Witness ==
  /\ FindAllOk
  /\ AskedPage = 2 /\ AskedLimit = 1
  /\ resp.body.total = 2
  /\ Len(resp.body.items) = 1
  /\ resp.body.items[1].id = SortedMatching[2]

\* C5: totalPages = ceil(total / limit), hasNextPage <=> page < totalPages,
\* hasPreviousPage <=> page > 1, also for total = 0
C5_PaginationMetadata ==
  FindAllOk =>
    LET b == resp.body IN
    /\ b.page = AskedPage /\ b.limit = AskedLimit
    /\ b.totalPages * b.limit >= b.total
    /\ (b.totalPages - 1) * b.limit < b.total
    /\ b.hasNextPage <=> (b.page < b.totalPages)
    /\ b.hasPreviousPage <=> (b.page > 1)
    /\ b.total = 0 => (b.totalPages = 0 /\ ~b.hasNextPage)

\* a total that the limit does not divide, with a next page
C5_Witness ==
  /\ FindAllOk
  /\ resp.body.total = 1 /\ resp.body.limit = 2
  /\ resp.body.totalPages = 1
  /\ ~resp.body.hasNextPage

\* C6: page < 1, limit < 1 or limit > 100 fails with BadRequest and no store
\* call; limit = 1 and limit = 100 with page = 1 are accepted
C6_InvalidPagingRejected ==
  IsFindAll =>
    /\ ~ValidPaging => (resp.status = "BadRequest" /\ resp.calls = <<>>)
    /\ (AskedPage = 1 /\ AskedLimit \in {1, 100}) => resp.status = "ok"

\* limit = 101 over a store that holds products
C6_Witness ==
  /\ IsFindAll
  /\ AskedLimit = 101 /\ AskedPage = 1
  /\ DOMAIN store # {}
  /\ resp.status = "BadRequest"

\* the name filter of the request matches a product by prefix
NamePrefixMatch(d, q) ==
  /\ d.name # Null
  /\ StartsWith(ToLowerCase(d.name), ToLowerCase(q.name))

\* C7: for a non-empty name filter s, the list matches exactly the stored
\* products whose lowercase name starts with lowercase(s)
C7_NameFilterIsPrefixMatch ==
  (FindAllOk /\ Has(req.query, "name") /\ req.query.name # EmptyStr
     /\ DOMAIN req.query \cap {"category", "minPrice", "maxPrice"} = {}) =>
    LET P == {id \in DOMAIN store : NamePrefixMatch(store[id], req.query)} IN
    /\ resp.body.total = Cardinality(P)
    /\ ItemIds \subseteq P

\* C8: a product is in the matching set iff it satisfies all present filters
\* at once: name prefix match, category equal, price >= minPrice, price <=
\* maxPrice; an absent filter constrains nothing
C8_FiltersAreConjoined ==
  FindAllOk =>
    LET q == req.query
        P == {id \in DOMAIN store :
                /\ (Has(q, "name") /\ q.name # EmptyStr) => NamePrefixMatch(store[id], q)
                /\ Has(q, "category") => store[id].category = q.category
                /\ Has(q, "minPrice") => store[id].price >= q.minPrice
                /\ Has(q, "maxPrice") => store[id].price <= q.maxPrice}
    IN /\ resp.body.total = Cardinality(P)
       /\ ItemIds \subseteq P

\* C9: the items are ordered by the chosen sortBy field, non-decreasing for
\* asc and non-increasing for desc; by default the order is name ascending,
\* the page 1 and the limit 10
C9_ItemsAreSorted ==
  FindAllOk =>
    LET q == req.query
        items == resp.body.items
        field == IF Has(q, "sortBy") THEN q.sortBy ELSE "name"
        desc == Has(q, "sortOrder") /\ q.sortOrder = "desc"
    IN /\ \A i, j \in 1..Len(items) :
            i < j => IF desc
                     THEN FieldLE(field, items[j][field], items[i][field])
                     ELSE FieldLE(field, items[i][field], items[j][field])
       /\ ~Has(q, "page") => resp.body.page = 1
       /\ ~Has(q, "limit") => (resp.body.limit = 10 /\ Len(items) <= 10)

\* two products with different prices listed by price, descending
C9_Witness ==
  /\ FindAllOk
  /\ Has(req.query, "sortBy") /\ req.query.sortBy = "price"
  /\ Has(req.query, "sortOrder") /\ req.query.sortOrder = "desc"
  /\ Len(resp.body.items) = 2
  /\ resp.body.items[1].price > resp.body.items[2].price

\* C10: create(p) returning id, then findOne(id) with no write to id in
\* between, returns a product with that id and p's name, description, price,
\* stock and category
C10_CreateThenFindOne ==
  /\ (req.op = "create") =>
        /\ resp.body.id \in DOMAIN store
        /\ hist[resp.body.id].input = req.dto
  /\ (req.op = "findOne" /\ req.id \in DOMAIN hist /\ ~hist[req.id].written) =>
        /\ resp.status = "ok"
        /\ resp.body.id = req.id
        /\ \A f \in VisibleFields : resp.body[f] = hist[req.id].input[f]

\* a product read back untouched after its creation
C10_Witness ==
  /\ req.op = "findOne"
  /\ resp.status = "ok"
  /\ ~hist[req.id].written
  /\ resp.body.name = WirelessMouse

\* C11: the search field is in no value returned to a caller: not in the
\* result of create, findOne or update, and in no item of findAll
C11_SearchFieldHidden ==
  (resp.status = "ok") =>
    /\ (req.op \in {"create", "findOne", "update"}) =>
          "nameSearch" \notin DOMAIN resp.body
    /\ (req.op = "findAll") =>
          \A i \in 1..Len(resp.body.items) :
            "nameSearch" \notin DOMAIN resp.body.items[i]

\* C12: a successful update(id, u) stores u's value in every field u names,
\* leaves every other field of the document as it was (the search field
\* excepted when u names name), and changes no other product
C12_UpdateIsPartial ==
  [][ (Idle /\ req'.op = "update" /\ resp'.status = "ok") =>
        LET id == req'.id
            u == req'.dto
        IN /\ DOMAIN store' = DOMAIN store
           /\ \A f \in DOMAIN u :
                f \in DOMAIN store'[id] /\ store'[id][f] = u[f]
           /\ \A f \in DOMAIN store[id] \ DOMAIN u :
                \/ f = "nameSearch" /\ "name" \in DOMAIN u
                \/ f \in DOMAIN store'[id] /\ store'[id][f] = store[id][f]
           /\ \A j \in DOMAIN store \ {id} : store'[j] = store[j]
    ]_vars

\* a price-only update answered while a second product is stored
C12_Witness ==
  /\ req.op = "update" /\ resp.status = "ok"
  /\ req.dto = [price |-> 500]
  /\ hist[req.id].input.price = 1500
  /\ store[req.id].price = 500
  /\ store[req.id].name = hist[req.id].input.name
  /\ Cardinality(DOMAIN store) = 2

\* the store calls of a request that are reads
OnlyReads(calls) == \A i \in 1..Len(calls) : calls[i] = "get"

\* C13: update and remove of an id that is not in the store fail with
\* NotFound, issue no write call and leave the store unchanged
C13_MissingIdIsNotFound ==
  [][ (Idle /\ req'.op \in {"update", "remove"} /\ req'.id \notin DOMAIN store) =>
        /\ resp'.status = "NotFound"
        /\ OnlyReads(resp'.calls)
        /\ store' = store
    ]_vars

\* an update of an absent id refused while another product is stored
C13_Witness ==
  /\ req.op = "update"
  /\ req.id \notin DOMAIN store
  /\ resp.status = "NotFound"
  /\ DOMAIN store # {}

\* the ids the store handed out whose documents are gone
Gone == used \ DOMAIN store

\* C14: remove of an existing product returns {id, deleted: true} and the
\* document is gone; from then on it never comes back, findOne and a second
\* remove of that id fail with NotFound and findAll does not list it
C14_HardDelete ==
  /\ [] /\ (req.op = "remove" /\ resp.status = "ok") =>
              /\ resp.body = [id |-> req.id, deleted |-> TRUE]
              /\ req.id \in Gone
        /\ (req.op = "findOne" /\ req.id \in Gone) => resp.status = "NotFound"
        /\ FindAllOk => ItemIds \cap Gone = {}
  /\ [][ /\ Gone \subseteq Gone'
         /\ (Idle /\ req'.op = "remove" /\ req'.id \in DOMAIN store) =>
               resp'.status = "ok"
         /\ (Idle /\ req'.op = "remove" /\ req'.id \in Gone) =>
               resp'.status = "NotFound"
     ]_vars

\* a second remove of a deleted product refused while another is stored
C14_Witness ==
  /\ req.op = "remove"
  /\ req.id \in Gone
  /\ resp.status = "NotFound"
  /\ DOMAIN store # {}

\* C15: the identifier never changes: update returns the id it was called
\* with, findOne returns the id it was asked for, and an update leaves the
\* product under the same id
C15_IdIsImmutable ==
  /\ [] /\ (req.op = "update" /\ resp.status = "ok") =>
              /\ "id" \in DOMAIN resp.body
              /\ resp.body.id = req.id
              /\ req.id \in DOMAIN store
        /\ (req.op = "findOne" /\ req.id \in DOMAIN store) =>
              /\ resp.status = "ok"
              /\ "id" \in DOMAIN resp.body
              /\ resp.body.id = req.id
  /\ [][ (Idle /\ req'.op = "update") => DOMAIN store' = DOMAIN store ]_vars

\* a product renamed by an update and read back under its id
C15_Witness ==
  /\ req.op = "findOne" /\ resp.status = "ok"
  /\ hist[req.id].written
  /\ hist[req.id].input.name = WirelessMouse
  /\ resp.body.name = MousePad
  /\ resp.body.id = req.id

\* the configured admin pair a login request names, if any
MatchesAdmin ==
  \E i \in 1..Len(adminUsers) :
    adminUsers[i].username = req.username /\ adminUsers[i].password = req.password

\* C16: AuthService.login, reached by every login request with a valid
\* body, succeeds iff (username, password) is one of the configured admin
\* pairs, and then returns that username with a token signed over
\* {username, isAdmin: true}
C16_LoginIffAdminPair ==
  (req.op = "login" /\ validLoginDto(req.username, req.password)) =>
    /\ (resp.status = "ok") <=> MatchesAdmin
    /\ (resp.status = "ok") =>
          LET token == resp.body.access_token IN
          /\ resp.body.username = req.username
          /\ token.kind = "jwt" /\ token.signedBy = "JWT_SECRET"
          /\ token.payload \in issued
          /\ [f \in {"username", "isAdmin"} |-> token.payload[f]]
               = [username |-> req.username, isAdmin |-> TRUE]
          /\ DOMAIN token.payload = {"username", "isAdmin", "iat", "exp"}

\* admin1 logged in with the configured password
C16_Witness ==
  /\ req.op = "login"
  /\ req.username = "admin1" /\ req.password = "password-1"
  /\ resp.status = "ok"
  /\ resp.body.access_token.payload.username = "admin1"
  /\ resp.body.access_token.payload.isAdmin

\* C17: every login refused by AuthService, whether the username is unknown
\* or the password is wrong, gets the same Unauthorized "Invalid credentials" answer, and no
\* token is issued
C17_LoginFailureIsUniform ==
  [][ (/\ Idle /\ req'.op = "login"
       /\ validLoginDto(req'.username, req'.password)
       /\ resp'.status # "ok") =>
        /\ resp' = [op |-> "login", status |-> "Unauthorized",
                    body |-> "Invalid credentials", calls |-> <<>>]
        /\ issued' = issued
    ]_vars

\* a known username refused for a wrong password after another login succeeded
C17_Witness ==
  /\ req.op = "login"
  /\ req.username = "admin1" /\ req.password = "password-2"
  /\ resp.status = "Unauthorized"
  /\ issued # {}

\* the guard let the request through to its handler
Accepted == ~RejectedByGuard(resp)

\* C18: a protected request is accepted iff its token is signed with the
\* process secret and the time is before the token's expiry; expiry is fixed
\* at issuance, time never runs back, so an expired token stays rejected, and
\* new tokens come only from a successful login
C18_TokenAcceptedUntilExpiry ==
  /\ [] /\ (req.op \in ProductOps) =>
              /\ Accepted <=> /\ bearer.kind = "jwt"
                              /\ bearer.signedBy = "JWT_SECRET"
                              /\ now < bearer.payload.exp
              /\ Accepted => bearer.payload \in issued
        /\ \A p \in issued : p.exp = p.iat + TokenLifetime /\ p.iat <= now
  /\ [][ /\ now' >= now
         /\ issued \subseteq issued'
         /\ (issued' # issued) =>
               /\ req'.op = "login" /\ resp'.status = "ok"
               /\ issued' = issued \cup {resp'.body.access_token.payload}
               /\ resp'.body.access_token.payload.iat = now
     ]_vars

\* access regained by a new login after an earlier token expired
C18_Witness ==
  /\ req.op \in ProductOps
  /\ Accepted
  /\ bearer.payload.iat > 0
  /\ \E p \in issued : now >= p.exp

\* every task is a finished call of op on the product id that was stored when
\* the call began
AllFinished(op, id) ==
  \A t \in TaskNames :
    /\ tasks[t].pc = "done"
    /\ tasks[t].op = op
    /\ tasks[t].id = id
    /\ tasks[t].live

\* C19: after two updates of one existing product have both completed, under
\* every interleaving of their store calls, both succeeded, each field named
\* by one update only holds that update's value, each field named by both
\* holds the value of one of them, and the other fields are unchanged
C19_ConcurrentUpdatesMergeByField ==
  \A id \in Ids :
    AllFinished("update", id) =>
      /\ \A t \in TaskNames : tasks[t].status = "ok"
      /\ id \in DOMAIN store
      /\ \A f \in VisibleFields :
           LET namers == {t \in TaskNames : f \in DOMAIN tasks[t].dto}
           IN IF namers = {}
              THEN store[id][f] = hist[id].input[f]
              ELSE \E t \in namers : store[id][f] = tasks[t].dto[f]

\* two updates interleaved: t1 read the product before t2 wrote and wrote
\* after it
C19_Witness ==
  /\ \E id \in Ids : AllFinished("update", id)
  /\ tasks["t1"].dto = [price |-> 500]
  /\ tasks["t2"].dto = [price |-> 700, stock |-> 9]
  /\ tasks["t1"].product.stock = 5
  /\ store[tasks["t1"].id].stock = 9
  /\ store[tasks["t1"].id].price = 500

\* C20: when two removes race on one existing product, exactly one of them
\* returns {id, deleted: true} and the other fails with NotFound
C20_OneDeleteWins ==
  \A id \in Ids :
    AllFinished("remove", id) =>
      /\ \A t \in TaskNames : tasks[t].status \in {"ok", "NotFound"}
      /\ Cardinality({t \in TaskNames : tasks[t].status = "ok"}) = 1

\* C23: update of an existing product returns the document fetched at the
\* start of the call overlaid with the patch (the patch wins), under the id
\* it was called with, and reads nothing from the store after its write
C23_UpdateViewIsClientSide ==
  [][ (Idle /\ req'.op = "update" /\ resp'.status = "ok") =>
        LET id == req'.id
            u == req'.dto
            fetched == store[id]
            view == resp'.body
            calls == resp'.calls
        IN /\ DOMAIN view = {"id"} \cup DOMAIN fetched \cup DOMAIN u
           /\ view.id = id
           /\ \A f \in DOMAIN u : view[f] = u[f]
           /\ \A f \in DOMAIN fetched \ DOMAIN u : view[f] = fetched[f]
           /\ \E w \in 1..Len(calls) :
                /\ calls[w] = "update"
                /\ \A i \in (w + 1)..Len(calls) : calls[i] # "get"
    ]_vars

\* a rename answered with the new name and the search field as fetched
C23_Witness ==
  /\ req.op = "update" /\ resp.status = "ok"
  /\ req.dto = [name |-> MousePad, stock |-> 0]
  /\ resp.body.name = MousePad
  /\ resp.body.nameSearch = ToLowerCase(WirelessMouse)
  /\ store[req.id].nameSearch = ToLowerCase(MousePad)

\* C29: with no concurrent write, the value a successful update returns
\* equals the value findOne returns right after it
C29_UpdateViewEqualsFindOne ==
  (req.op = "update" /\ resp.status = "ok") =>
    resp.body = getDocument(store, req.id)

\* the items of page p of the query being answered, over the store as it is
PageItems(p) == findAll(store, Spread(req.query, [page |-> p])).body.items

\* the item lists of pages 1..n, one after the other
RECURSIVE ConcatPages(_)
ConcatPages(n) == IF n = 0 THEN <<>> ELSE ConcatPages(n - 1) \o PageItems(n)

\* the matching products have pairwise distinct values of the sort key
DistinctSortKeys ==
  LET field == IF Has(req.query, "sortBy") THEN req.query.sortBy ELSE "name"
  IN \A a, b \in MatchingIds : a # b => store[a][field] # store[b][field]

\* C27: over an unchanged store with distinct sort keys, the pages
\* 1..totalPages of a query are pairwise disjoint and, one after the other,
\* list every matching product exactly once in sort order
C27_PagesPartitionTheResult ==
  (FindAllOk /\ ValidPaging /\ DistinctSortKeys) =>
    LET n == resp.body.totalPages
        all == ConcatPages(n)
    IN /\ Len(all) = resp.body.total
       /\ [i \in 1..Len(all) |-> all[i].id] = SortedMatching
       /\ \A i, j \in 1..Len(all) : i # j => all[i].id # all[j].id
       /\ \A p \in 1..n : PageItems(p) # <<>>

\* two matching products listed on two pages of one item each
C27_Witness ==
  /\ FindAllOk
  /\ DistinctSortKeys
  /\ AskedLimit = 1
  /\ resp.body.totalPages = 2
  /\ PageItems(1) # PageItems(2)
  /\ Len(ConcatPages(2)) = 2

\* C28: hasNextPage holds iff the next page of the same query has an item,
\* that is iff page * limit < total; hasPreviousPage holds iff page - 1 is a
\* page number
C28_NextPageFlagIsTruthful ==
  (FindAllOk /\ ValidPaging) =>
    LET b == resp.body IN
    /\ b.hasNextPage <=> (PageItems(AskedPage + 1) # <<>>)
    /\ b.hasNextPage <=> (AskedPage * AskedLimit < b.total)
    /\ b.hasPreviousPage <=> (AskedPage - 1 >= 1)

\* the last page of a filtered list: no next page, a previous one
C28_Witness ==
  /\ FindAllOk
  /\ AskedPage = 2 /\ AskedLimit = 1
  /\ resp.body.total = 2
  /\ ~resp.body.hasNextPage
  /\ resp.body.hasPreviousPage
  /\ PageItems(3) = <<>>
  /\ PageItems(1) # <<>>

\* C24: a step of update or remove that finds its target id absent from the
\* store ends the call with NotFound and writes nothing, also when the id
\* went away between the call's existence check and its write
C24_AbsentIdIsNotFound ==
  [][ \A t \in TaskNames :
        ( /\ tasks[t].pc \in {"getDocument", "exists", "write"}
          /\ tasks'[t] # tasks[t]
          /\ tasks[t].id \notin DOMAIN store ) =>
            /\ tasks'[t].pc = "done"
            /\ tasks'[t].status = "NotFound"
            /\ store' = store
    ]_vars

\* C25: once remove(id) has returned {id, deleted: true} no document is
\* stored under id in any later state, whatever an update that passed its
\* existence check before the delete does afterwards
C25_NoResurrection ==
  /\ [] \A t \in TaskNames :
          (tasks[t].pc = "done" /\ tasks[t].op = "remove" /\ tasks[t].status = "ok")
            => tasks[t].id \notin DOMAIN store
  /\ [][ Gone \subseteq Gone' ]_vars

\* a remove that succeeded and an update of the same product that passed its
\* checks before the delete and wrote after it
C25_Witness ==
  /\ tasks["t1"].pc = "done" /\ tasks["t1"].op = "remove"
  /\ tasks["t1"].status = "ok"
  /\ tasks["t2"].pc = "done" /\ tasks["t2"].op = "update"
  /\ tasks["t2"].id = tasks["t1"].id
  /\ tasks["t2"].status = "InternalServerError"
  /\ tasks["t1"].id \in Gone

\* C26: every list response is consistent in itself, also when products are
\* created or removed while the call runs: (page-1)*limit + len(items) <=
\* total, so items are never returned with total = 0 or totalPages < page
C26_ListResponseIsConsistent ==
  \A t \in TaskNames :
    (tasks[t].pc = "done" /\ tasks[t].op = "findAll" /\ tasks[t].status = "ok") =>
      LET b == tasks[t].body IN
      /\ (b.page - 1) * b.limit + Len(b.items) <= b.total
      /\ b.items # <<>> => (b.total # 0 /\ b.totalPages >= b.page)

\* page and limit of a list query are in range
PagingOk(q) ==
  LET page == IF Has(q, "page") THEN q.page ELSE 1
      limit == IF Has(q, "limit") THEN q.limit ELSE 10
  IN page >= 1 /\ limit >= 1 /\ limit <= 100

\* the store calls request r issues over store s when none of them fails
FullCalls(r, s) ==
  CASE r.op = "create" -> <<"add">>
    [] r.op = "findOne" -> <<"get">>
    [] r.op = "findAll" -> IF PagingOk(r.query) THEN <<"query", "query">> ELSE <<>>
    [] r.op = "update" -> IF r.id \in DOMAIN s THEN <<"get", "get", "update">>
                          ELSE <<"get">>
    [] r.op = "remove" -> IF r.id \in DOMAIN s THEN <<"get", "get", "delete">>
                          ELSE <<"get">>

\* the failing store call of request r is one the request gets to
FaultHit(r, s) == Has(r, "failAt") /\ r.failAt <= Len(FullCalls(r, s))

\* C21: in every product operation a failed store call reaches the caller as
\* an internal server error (StoreUnavailable) and nothing else does;
\* otherwise a bad page or limit reaches it as BadRequest and an absent id as
\* NotFound, never rewrapped
C21_ErrorKindsSurface ==
  [][ (Idle /\ req'.op \in ProductOps) =>
        IF FaultHit(req', store)
        THEN resp'.status = "InternalServerError"
        ELSE resp'.status =
               IF req'.op = "findAll" /\ ~PagingOk(req'.query) THEN "BadRequest"
               ELSE IF req'.op \in {"findOne", "update", "remove"}
                       /\ req'.id \notin DOMAIN store THEN "NotFound"
               ELSE "ok"
    ]_vars

\* an update of a stored product whose write fails
C21_Witness ==
  /\ req.op = "update"
  /\ Has(req, "failAt") /\ req.failAt = 3
  /\ req.id \in DOMAIN store
  /\ resp.status = "InternalServerError"

\* C22: no store call is tried twice, and the first store call that fails is
\* the last call of the request, which fails and changes nothing
C22_NoRetries ==
  [][ (Idle /\ req'.op \in ProductOps) =>
        LET full == FullCalls(req', store)
            calls == resp'.calls
        IN /\ Len(calls) <= Len(full)
           /\ calls = SubSeq(full, 1, Len(calls))
           /\ FaultHit(req', store) =>
                /\ Len(calls) = req'.failAt
                /\ resp'.status # "ok"
                /\ store' = store
    ]_vars

\* a remove that stops at its failed second read, the product still stored
C22_Witness ==
  /\ req.op = "remove"
  /\ Has(req, "failAt") /\ req.failAt = 2
  /\ resp.calls = <<"get", "get">>
  /\ resp.status # "ok"
  /\ req.id \in DOMAIN store

\* C30: a login with an empty password never succeeds and never issues a
\* token, also when an admin's configured password is empty because its
\* environment variable was not set
C30_EmptyPasswordNeverLogsIn ==
  [][ (Idle /\ req'.op = "login" /\ req'.password = "") =>
        /\ resp'.status # "ok"
        /\ issued' = issued
    ]_vars

\* admin2, configured with the empty password, asks to log in with it and is
\* refused
C30_Witness ==
  /\ req.op = "login"
  /\ req.username = "admin2" /\ req.password = ""
  /\ MatchesAdmin
  /\ resp.status = "BadRequest"

====
